---- MODULE Spec2Model ----
(***************************************************************************)
(* FormChippy slide navigation (FormChippy.js v1.1.0): the admission       *)
(* logic of goToSlide, its frame and timer callbacks, and the callers      *)
(* next, prev, reset and the resize handler.                               *)
(*                                                                         *)
(* Time is the value of Date.now() in milliseconds.  A setTimeout is a     *)
(* record in `timers` holding its deadline; a requestAnimationFrame        *)
(* callback is a record in `frames`.  The clock advances in steps of       *)
(* ClockStep and never while a callback is due, so a timer callback runs   *)
(* at the first instant at or after its deadline (setTimeout promises no   *)
(* more than the minimum delay) and a frame callback runs at the instant   *)
(* it was requested in; public calls interleave freely with both.          *)
(***************************************************************************)
EXTENDS Integers, Sequences, FiniteSets, TLC

VARIABLES
    totalSlides,        \* this.totalSlides
    validationEnabled,  \* this.validationEnabled
    currentSlideIndex,  \* this.currentSlideIndex
    isAnimating,        \* this.isAnimating
    navState,           \* this._navigationState
    tracker,            \* this._slidePositionTracker
    activeSlides,       \* slides carrying options.activeClass
    timers,             \* live setTimeout callbacks, in registration order
    frames,             \* pending requestAnimationFrame callbacks
    events,             \* events dispatched so far (slideChange, navigationComplete)
    tabHandlers,        \* slides whose elements carry a tracked keydown handler
    now,                \* Date.now()
    eventHandlers,      \* this.eventHandlers.navigationComplete, in registration order
    handlerCalls,       \* handlers called so far by trigger, in call order
    pipeline,           \* the steps the transitions have run so far, in order
    scroll,             \* the scroll of one slide: its inputs and the block used
    tabbing             \* the slides' elements, their keydown listeners, the last key

vars == <<totalSlides, validationEnabled, currentSlideIndex, isAnimating,
          navState, tracker, activeSlides, timers, frames, events, tabHandlers,
          now, eventHandlers, handlerCalls, pipeline, scroll, tabbing>>

(***************************************************************************)
(* Bounds of the model.                                                    *)
(***************************************************************************)
TotalSlides == 4      \* slides found in the container by _init
StartTime   == 1000   \* Date.now() when the form is constructed
ClockStep   == 250    \* granularity of the clock
MaxTime     == 2000   \* the clock stops here
MaxCommits  == 2      \* public calls stop after this many committed transitions
BurstMaxTime == 4000  \* the clock stops here in the burst scenario
BurstSlides == 5      \* slides of the burst scenario
BurstClockStep == 100 \* granularity of the clock in the burst scenario

(***************************************************************************)
(* Program constants.                                                      *)
(***************************************************************************)
DebounceTime   == 500   \* _navigationState.debounceTime
MaxQueueSize   == 3     \* _navigationState.maxQueueSize
AnimationDelay == 800   \* options.animationDelay
SettleMargin   == 50    \* animationDelay + 50 / 50 without animation
GraceDelay     == 50    \* delay before a drained entry is re-issued

(***************************************************************************)
(* Helpers on sequences.                                                   *)
(***************************************************************************)
Includes(q, x) == \E k \in 1..Len(q) : q[k] = x

Remove(s, k) == [j \in 1..(Len(s) - 1) |-> IF j < k THEN s[j] ELSE s[j + 1]]

Last(s) == s[Len(s)]

(***************************************************************************)
(* setTimeout / clearTimeout.                                              *)
(***************************************************************************)
TimerIds(tm) == {tm[k].id : k \in 1..Len(tm)}

\* The handle returned by setTimeout: a positive integer that names no live
\* timer and differs from the handle held in the pending slot.
NewTimerId(tm, pending) ==
    CHOOSE n \in 1..(Len(tm) + 2) :
        /\ n \notin TimerIds(tm) \cup {pending}
        /\ \A m \in 1..(n - 1) : m \in TimerIds(tm) \cup {pending}

SetTimeout(tm, id, kind, delay, index, oldIndex, t) ==
    Append(tm, [id |-> id, kind |-> kind, deadline |-> t + delay,
                delay |-> delay, index |-> index, oldIndex |-> oldIndex])

ClearTimeout(tm, id) == SelectSeq(tm, LAMBDA x : x.id # id)

(***************************************************************************)
(* The program state as one record, so that goToSlide can be applied by    *)
(* a public call and, nested, by a timer callback.                         *)
(***************************************************************************)
NoNavigationState ==
    [exists |-> FALSE, lastTime |-> 0, pending |-> 0, inProgress |-> FALSE,
     queue |-> <<>>]

NewNavigationState ==
    [exists |-> TRUE, lastTime |-> 0, pending |-> 0, inProgress |-> FALSE,
     queue |-> <<>>]

NoTracker ==
    [exists |-> FALSE, currentIndex |-> 0, maxVisitedIndex |-> 0, history |-> <<>>]

NewTracker ==
    [exists |-> TRUE, currentIndex |-> 0, maxVisitedIndex |-> 0, history |-> <<0>>]

State ==
    [currentSlideIndex |-> currentSlideIndex, isAnimating |-> isAnimating,
     navState |-> navState, tracker |-> tracker, timers |-> timers,
     frames |-> frames, events |-> events, activeSlides |-> activeSlides,
     tabHandlers |-> tabHandlers, eventHandlers |-> eventHandlers,
     handlerCalls |-> handlerCalls, pipeline |-> pipeline]

\* The result r of a handler run becomes the next state.
Install(s) ==
    \E r \in {s} :
        /\ currentSlideIndex' = r.currentSlideIndex
        /\ isAnimating' = r.isAnimating
        /\ navState' = r.navState
        /\ tracker' = r.tracker
        /\ timers' = r.timers
        /\ frames' = r.frames
        /\ events' = r.events
        /\ activeSlides' = r.activeSlides
        /\ tabHandlers' = r.tabHandlers
        /\ eventHandlers' = r.eventHandlers
        /\ handlerCalls' = r.handlerCalls
        /\ pipeline' = r.pipeline

(***************************************************************************)
(* goToSlide(index, animate), called at time t.                            *)
(***************************************************************************)
\* Mutants of the bounds check: no lower bound; upper bound off by one.
OutOfBoundsNoLower(index, total) == index >= total

OutOfBoundsOffByOne(index, total) == index < 0 \/ index > total

OutOfBounds(index, total) == index < 0 \/ index >= total

Blocked(animating, timeSinceLastNav) ==
    animating /\ timeSinceLastNav < DebounceTime

\* Mutant of the queue guard: the duplicate check is missing.
CanEnqueueNoDedup(queue, index) == Len(queue) < MaxQueueSize

CanEnqueue(queue, index) ==
    Len(queue) < MaxQueueSize /\ ~Includes(queue, index)

\* Mutant of queue.push: the index is put at the front (unshift).
EnqueueFront(queue, index) == <<index>> \o queue

Enqueue(queue, index) == Append(queue, index)

AlreadyOnSlide(index, current, animating) == index = current /\ ~animating

ClearPending(s) ==
    IF s.navState.pending # 0
    THEN [s EXCEPT !.timers = ClearTimeout(@, s.navState.pending),
                   !.navState.pending = 0]
    ELSE s

\* Mutants of the commit: maxVisitedIndex follows the index down; the index
\* is put in front of the history; currentIndex is left as it was.
CommitSetsMax(trk, index) ==
    LET t0 == IF trk.exists THEN trk ELSE NewTracker
    IN  [t0 EXCEPT !.currentIndex = index,
                   !.history = Append(@, index),
                   !.maxVisitedIndex = index]

CommitPrepend(trk, index) ==
    LET t0 == IF trk.exists THEN trk ELSE NewTracker
    IN  [t0 EXCEPT !.currentIndex = index,
                   !.history = <<index>> \o @,
                   !.maxVisitedIndex = IF index > @ THEN index ELSE @]

CommitStale(trk, index) ==
    LET t0 == IF trk.exists THEN trk ELSE NewTracker
    IN  [t0 EXCEPT !.history = Append(@, index),
                   !.maxVisitedIndex = IF index > @ THEN index ELSE @]

\* Mutant: currentIndex is the furthest index visited.
CommitFurthest(trk, index) ==
    LET t0 == IF trk.exists THEN trk ELSE NewTracker
    IN  [t0 EXCEPT !.currentIndex = IF index > t0.maxVisitedIndex THEN index
                                    ELSE t0.maxVisitedIndex,
                   !.history = Append(@, index),
                   !.maxVisitedIndex = IF index > @ THEN index ELSE @]

Commit(trk, index) ==
    LET t0 == IF trk.exists THEN trk ELSE NewTracker
    IN  [t0 EXCEPT !.currentIndex = index,
                   !.history = Append(@, index),
                   !.maxVisitedIndex = IF index > @ THEN index ELSE @]

goToSlide(s, index, animate, t, total) ==
    IF OutOfBounds(index, total) THEN s
    ELSE
      LET s1 == IF s.navState.exists THEN s
                ELSE [s EXCEPT !.navState = NewNavigationState]
          timeSinceLastNav == t - s1.navState.lastTime
          s2 == ClearPending(s1)
      IN
      IF Blocked(s2.isAnimating, timeSinceLastNav)
      THEN IF CanEnqueue(s2.navState.queue, index)
           THEN LET id == NewTimerId(s2.timers, s2.navState.pending)
                IN  [s2 EXCEPT
                       !.navState.queue = Enqueue(@, index),
                       !.navState.pending = id,
                       !.timers = SetTimeout(@, id, "drain", DebounceTime, 0, 0, t)]
           ELSE s2
      ELSE
        LET s3 == [s2 EXCEPT !.navState.lastTime = t,
                             !.navState.inProgress = TRUE]
        IN
        IF AlreadyOnSlide(index, s3.currentSlideIndex, s3.isAnimating) THEN s3
        ELSE [s3 EXCEPT
                !.isAnimating = TRUE,
                !.tracker = Commit(@, index),
                !.currentSlideIndex = index,
                !.frames = Append(@, [stage |-> 1, index |-> index,
                                      animate |-> animate,
                                      oldIndex |-> s3.currentSlideIndex])]

(***************************************************************************)
(* _updateActiveSlide(index): skipped while a transition to another index  *)
(* is animating, otherwise dispatches formchippy:slideChange.              *)
(***************************************************************************)
SkipUpdate(animating, index, current) == animating /\ index # current

\* slides[index].getAttribute('data-fc-slide'): each slide has its own id.
SlideId(index) == <<"data-fc-slide", index>>

\* Mutant: the event carries the index as it is.
SlideChangeZeroBased(index, total) ==
    [type |-> "slideChange", currentSlide |-> index, totalSlides |-> total,
     slideId |-> SlideId(index)]

SlideChangeEvent(index, total) ==
    [type |-> "slideChange", currentSlide |-> index + 1, totalSlides |-> total,
     slideId |-> SlideId(index)]

NavigationCompleteEvent(oldIndex, index) ==
    [type |-> "navigationComplete", fromIndex |-> oldIndex, toIndex |-> index]

\* _cleanupTabEventListeners: every tracked handler is removed.
cleanupTabEventListeners(handlers) == {}

\* _setupActiveSlideTabbing(slide): the tracked handlers are removed, then
\* the last-input and focus-trap handlers are attached in this slide (every
\* slide of the model holds an input and a button).
setupActiveSlideTabbing(handlers, index) ==
    cleanupTabEventListeners(handlers) \cup {index}

\* A step of the pipeline, run for the transition to index.
Step(name, index) == [step |-> name, index |-> index]

updateActiveSlide(s, index, total) ==
    IF SkipUpdate(s.isAnimating, index, s.currentSlideIndex) THEN s
    ELSE [s EXCEPT !.tabHandlers = setupActiveSlideTabbing(@, index),
                   !.pipeline = Append(@, Step("tabbing", index)),
                   !.events = Append(@, SlideChangeEvent(index, total))]

(***************************************************************************)
(* The two requestAnimationFrame callbacks of an admitted transition.      *)
(***************************************************************************)
CleanupDelay(animate) ==
    IF animate THEN AnimationDelay + SettleMargin ELSE SettleMargin

\* Mutant: the indicators are updated before the class is moved.
IndicatorsFirst(log, index) ==
    log \o <<Step("indicators", index), Step("activeClass", index)>>

\* The first frame moves the class (lines 665-668), then updates progress,
\* counter and button states (lines 671-675).
FirstFrameSteps(log, index) ==
    log \o <<Step("activeClass", index), Step("indicators", index)>>

\* Mutant of the class update: the class is added to the target only.
ToggleActiveAddOnly(active, index) == active \cup {index}

\* Mutant of the class update: the class stays where it is.
ToggleActiveKeeps(active, index) == active

\* slide.classList.toggle(activeClass, i === index) over all slides.
ToggleActive(active, index) == {index}

\* First frame: move the active class, update the indicators, schedule the
\* second frame.
FirstFrame(s, f, total) ==
    LET s1 == [s EXCEPT !.activeSlides = ToggleActive(@, f.index),
                        !.pipeline = FirstFrameSteps(@, f.index)]
        s2 == updateActiveSlide(s1, f.index, total)
    IN  [s2 EXCEPT !.frames = Append(Tail(@), [f EXCEPT !.stage = 2])]

\* Second frame: scroll, then schedule the cleanup; the handle overwrites
\* the pending slot.
SecondFrame(s, f, t) ==
    LET id == NewTimerId(s.timers, s.navState.pending)
    IN  [s EXCEPT
           !.frames = Tail(@),
           !.pipeline = Append(@, Step("scroll", f.index)),
           !.navState.pending = id,
           !.timers = SetTimeout(@, id, "complete", CleanupDelay(f.animate),
                                 f.index, f.oldIndex, t)]

(***************************************************************************)
(* trigger('navigationComplete', data): the handlers registered with on()  *)
(* are called in order; a handler either returns ("ok") or throws.         *)
(***************************************************************************)
\* Mutant: the handler is called without the try/catch.
HandlerPropagates(outcome) == outcome # "throws"

\* try { handler(data) } catch (error) { log }: whatever the handler does,
\* the call site goes on.
Caught(outcome) == TRUE

\* The handlers trigger() gets to call: all of them, unless a throw escapes.
Called(handlers) ==
    LET escaping == {k \in 1..Len(handlers) : ~Caught(handlers[k])}
    IN  IF escaping = {} THEN [k \in 1..Len(handlers) |-> k]
        ELSE [k \in 1..(CHOOSE m \in escaping : \A e \in escaping : m <= e) |-> k]

\* trigger() returns this unless a throw escapes the forEach.
TriggerReturns(handlers) == \A k \in 1..Len(handlers) : Caught(handlers[k])

trigger(s, data) ==
    [s EXCEPT
       !.events = Append(@, data),
       !.handlerCalls = @ \o [k \in 1..Len(Called(s.eventHandlers)) |->
                                [handler |-> k, toIndex |-> data.toIndex]]]

(***************************************************************************)
(* The timer callbacks.                                                    *)
(***************************************************************************)
\* Cleanup after the animation: release the flags, trigger
\* navigationComplete, shift one queue entry and re-issue it after the
\* grace delay unless it is the current slide.
CompleteCallback(s, tm, t) ==
    LET s1 == trigger([s EXCEPT !.isAnimating = FALSE,
                                !.navState.inProgress = FALSE,
                                !.pipeline = Append(@, Step("complete", tm.index))],
                      NavigationCompleteEvent(tm.oldIndex, tm.index))
        queue == s1.navState.queue
    IN
    IF ~TriggerReturns(s.eventHandlers) THEN s1
    ELSE IF Len(queue) > 0
    THEN LET nextIndex == Head(queue)
             s2 == [s1 EXCEPT !.navState.queue = Tail(@)]
         IN  IF nextIndex # s2.currentSlideIndex
             THEN [s2 EXCEPT
                     !.timers = SetTimeout(@, NewTimerId(s2.timers, s2.navState.pending),
                                           "grace", GraceDelay, nextIndex, 0, t)]
             ELSE s2
    ELSE s1

\* The timer set when a request is queued: shift one entry and go there.
DrainCallback(s, t, total) ==
    LET queue == s.navState.queue
    IN
    IF Len(queue) = 0 THEN s
    ELSE LET nextIndex == Head(queue)
             s1 == [s EXCEPT !.navState.queue = Tail(@)]
         IN  IF nextIndex # s1.currentSlideIndex
             THEN goToSlide(s1, nextIndex, TRUE, t, total)
             ELSE s1

\* The re-issue of a drained entry.
GraceCallback(s, tm, t, total) == goToSlide(s, tm.index, TRUE, t, total)

RunTimer(s, tm, t, total) ==
    CASE tm.kind = "drain"    -> DrainCallback(s, t, total)
      [] tm.kind = "complete" -> CompleteCallback(s, tm, t)
      [] tm.kind = "grace"    -> GraceCallback(s, tm, t, total)

\* A timer runs once its deadline is reached; of two timers the one with the
\* earlier deadline runs first, and of two with the same delay the one set
\* first.
Due(tm, k, t) ==
    /\ tm[k].deadline <= t
    /\ \A j \in 1..Len(tm) :
          /\ tm[j].deadline >= tm[k].deadline
          /\ (tm[j].deadline = tm[k].deadline /\ tm[j].delay = tm[k].delay) => j >= k

(***************************************************************************)
(* Initial state: the state _init leaves (slide 0 active, its slideChange  *)
(* dispatched, no navigation state and no tracker yet).                    *)
(***************************************************************************)
NavInit(total, validation, handlers) ==
    /\ totalSlides = total
    /\ validationEnabled = validation
    /\ currentSlideIndex = 0
    /\ isAnimating = FALSE
    /\ navState = NoNavigationState
    /\ tracker = NoTracker
    /\ activeSlides = {0}
    /\ timers = <<>>
    /\ frames = <<>>
    /\ events = <<SlideChangeEvent(0, total)>>
    /\ tabHandlers = setupActiveSlideTabbing(setupActiveSlideTabbing({}, 0), 0)
    /\ now = StartTime
    /\ eventHandlers = handlers
    /\ handlerCalls = <<>>
    /\ pipeline = <<>>

\* The scroll and the tab order are not followed while navigation is.
NoScroll == [block |-> "unset"]

NoTabbing == [active |-> -1]

InitWith(total, validation) ==
    /\ NavInit(total, validation, <<>>)
    /\ scroll = NoScroll
    /\ tabbing = NoTabbing

Init == InitWith(TotalSlides, TRUE)

(***************************************************************************)
(* Public calls.                                                           *)
(***************************************************************************)
\* Public calls are made until MaxCommits transitions have been committed.
CanCall == Len(tracker.history) <= MaxCommits

\* A public call runs to completion at the current instant; `issued` tells
\* whether it reaches goToSlide.
Call(index, animate, issued) ==
    /\ CanCall
    /\ UNCHANGED <<totalSlides, validationEnabled, now, scroll, tabbing>>
    /\ Install(IF issued THEN goToSlide(State, index, animate, now, totalSlides)
               ELSE State)

\* goToSlide(index) called by the host page or a navigation control.
GoToSlideReq(index) == Call(index, TRUE, TRUE)

\* The finished run of a public method becomes the next state.
Returns(outcome) ==
    /\ CanCall
    /\ UNCHANGED <<totalSlides, validationEnabled, now, scroll, tabbing>>
    /\ Install(outcome)

\* Mutant of the index next and prev start from: the slide carrying the
\* active class.
ActiveIndex == CHOOSE i \in activeSlides : TRUE

\* next and prev read the tracker's index when the tracker exists.
TrackedIndex == IF tracker.exists THEN tracker.currentIndex ELSE currentSlideIndex

\* Mutant of next's range test: the last slide passes it.
CanGoNextOffByOne(currentIndex, total) == currentIndex < total

CanGoNext(currentIndex, total) == currentIndex < total - 1

CanGoPrev(currentIndex) == currentIndex > 0

\* validation.validateSlide is called only inside the range test and only
\* when validation is enabled (the || short-circuits).
Consulted(enabled, inRange) == inRange /\ enabled

\* Mutants of the validation gate: never gated; gated even when disabled.
PassAlways(enabled, valid) == TRUE

PassGated(enabled, valid) == valid

\* !this.validationEnabled || this.validation.validateSlide(currentSlide)
Pass(enabled, valid) == ~enabled \/ valid

\* next(), `valid` being what validateSlide would return.
NextOutcome(valid) ==
    LET currentIndex == TrackedIndex
    IN  IF CanGoNext(currentIndex, totalSlides) /\ Pass(validationEnabled, valid)
        THEN goToSlide(State, currentIndex + 1, TRUE, now, totalSlides)
        ELSE State

next(valid) ==
    /\ ~Consulted(validationEnabled, CanGoNext(TrackedIndex, totalSlides)) => valid
    /\ Returns(NextOutcome(valid))

\* prev()
PrevOutcome ==
    LET currentIndex == TrackedIndex
    IN  IF CanGoPrev(currentIndex)
        THEN goToSlide(State, currentIndex - 1, TRUE, now, totalSlides)
        ELSE State

prev == Returns(PrevOutcome)

\* reset() as far as navigation goes: goToSlide(0).  The formchippy:reset
\* event it dispatches afterwards is recorded by ResetOutcome.
reset == Call(0, TRUE, TRUE)

\* Mutant of the resize guard: the re-scroll is issued while animating too.
ResizeAlways(animating) == TRUE

ResizeGuard(animating) == ~animating

\* _handleResize
ResizeOutcome ==
    IF ResizeGuard(isAnimating)
    THEN goToSlide(State, currentSlideIndex, FALSE, now, totalSlides)
    ELSE State

handleResize == Returns(ResizeOutcome)

(***************************************************************************)
(* Callbacks and the clock.                                                *)
(***************************************************************************)
TimerFire(k) ==
    /\ Due(timers, k, now)
    /\ Install(RunTimer([State EXCEPT !.timers = Remove(@, k)], timers[k], now, totalSlides))
    /\ UNCHANGED <<totalSlides, validationEnabled, now, scroll, tabbing>>

FrameFire ==
    /\ frames # <<>>
    /\ LET f == Head(frames)
       IN  Install(IF f.stage = 1 THEN FirstFrame(State, f, totalSlides)
                   ELSE SecondFrame(State, f, now))
    /\ UNCHANGED <<totalSlides, validationEnabled, now, scroll, tabbing>>

\* The passage of time matters while a timer is live or the debounce window
\* of an animating transition is open.
TimeMatters ==
    \/ timers # <<>>
    \/ isAnimating /\ now - navState.lastTime < DebounceTime

TickTo(limit, step) ==
    /\ now < limit
    /\ TimeMatters
    /\ frames = <<>>
    /\ \A k \in 1..Len(timers) : timers[k].deadline > now
    /\ now' = now + step
    /\ UNCHANGED <<totalSlides, validationEnabled, currentSlideIndex, isAnimating,
                   navState, tracker, activeSlides, timers, frames, events,
                   tabHandlers, eventHandlers, handlerCalls, pipeline, scroll,
                   tabbing>>

Tick == TickTo(MaxTime, ClockStep)

Next ==
    \/ \E index \in -1..totalSlides : GoToSlideReq(index)
    \/ \E valid \in BOOLEAN : next(valid)
    \/ prev
    \/ reset
    \/ handleResize
    \/ \E k \in 1..Len(timers) : TimerFire(k)
    \/ FrameFire
    \/ Tick

Spec == Init /\ [][Next]_vars

(***************************************************************************)
(* The burst scenario: five slides, the form idle on slide 0, and          *)
(* goToSlide(1), goToSlide(2), goToSlide(3) called in that order within    *)
(* one debounce window; nothing else is called.                            *)
(***************************************************************************)
BurstInit == InitWith(BurstSlides, TRUE)

InWindow == navState.exists /\ now - navState.lastTime < DebounceTime

BurstFirst ==
    /\ ~tracker.exists
    /\ GoToSlideReq(1)

BurstSecond ==
    /\ tracker.history = <<0, 1>>
    /\ InWindow
    /\ ~Includes(navState.queue, 2)
    /\ GoToSlideReq(2)

BurstThird ==
    /\ tracker.history = <<0, 1>>
    /\ InWindow
    /\ Includes(navState.queue, 2)
    /\ ~Includes(navState.queue, 3)
    /\ GoToSlideReq(3)

BurstTick == TickTo(BurstMaxTime, BurstClockStep)

BurstNext ==
    \/ BurstFirst
    \/ BurstSecond
    \/ BurstThird
    \/ \E k \in 1..Len(timers) : TimerFire(k)
    \/ FrameFire
    \/ BurstTick

SpecBurst == BurstInit /\ [][BurstNext]_vars

(***************************************************************************)
(* The burst followed by one more call: once the burst is over and the     *)
(* form is idle again, goToSlide(4) is called, and nothing after it.       *)
(***************************************************************************)
LoneRequest ==
    /\ Includes(tracker.history, 2)
    /\ ~Includes(tracker.history, totalSlides - 1)
    /\ ~isAnimating
    /\ Install(goToSlide(State, totalSlides - 1, TRUE, now, totalSlides))
    /\ UNCHANGED <<totalSlides, validationEnabled, now, scroll, tabbing>>

LoneNext ==
    \/ BurstFirst
    \/ BurstSecond
    \/ BurstThird
    \/ LoneRequest
    \/ \E k \in 1..Len(timers) : TimerFire(k)
    \/ FrameFire
    \/ BurstTick

SpecLone == BurstInit /\ [][LoneNext]_vars

(***************************************************************************)
(* Vocabulary of the properties.                                           *)
(***************************************************************************)
Slides == 0..(totalSlides - 1)

\* Number of elements of a sequence that satisfy a test.
CountIn(seq, Test(_)) == Cardinality({k \in 1..Len(seq) : Test(seq[k])})

\* navigationComplete events dispatched so far with the given toIndex.
Completed(i) ==
    CountIn(events, LAMBDA e : e.type = "navigationComplete" /\ e.toIndex = i)

\* Times index i has been committed (the tracker's history starts with the
\* initial index, which is no commit).
Committed(i) ==
    IF tracker.exists THEN CountIn(Tail(tracker.history), LAMBDA x : x = i) ELSE 0

\* Transitions to i whose completion is still to come: a frame callback of
\* the transition is pending or its cleanup timer is live.
Scheduled(i) ==
    CountIn(frames, LAMBDA f : f.index = i)
      + CountIn(timers, LAMBDA tm : tm.kind = "complete" /\ tm.index = i)

\* A step that commits a transition.
CommitStep == tracker'.history # tracker.history

\* The state parts a navigation request can touch.
navVars == <<currentSlideIndex, isAnimating, navState, tracker, activeSlides,
             timers, frames, events>>

(***************************************************************************)
(* C1: at most one transition is in flight: while isAnimating is set no    *)
(* step commits another index; a commit happens only after the completion  *)
(* callback has released isAnimating.                                      *)
(***************************************************************************)
C1_SingleFlight == [][isAnimating => ~CommitStep]_vars

(***************************************************************************)
(* C2: a transition requested while idle, with no call after it, is        *)
(* followed by exactly one navigationComplete for its index.  In SpecLone  *)
(* that transition is the one to the last slide: from its commit on,       *)
(* either its navigationComplete has been dispatched once or its           *)
(* completion is still scheduled.                                          *)
(***************************************************************************)
C2_LoneRequestCompletes ==
    LET i == totalSlides - 1
    IN  Committed(i) = 1 =>
            \/ Completed(i) = 1 /\ Scheduled(i) = 0
            \/ Completed(i) = 0 /\ Scheduled(i) = 1

(***************************************************************************)
(* C3: every admitted transition runs to completion: each committed index  *)
(* has had its navigationComplete dispatched or still has its completion   *)
(* scheduled, whatever calls arrived after the commit.                     *)
(***************************************************************************)
C3_AdmittedRunsToCompletion ==
    \A i \in Slides : Committed(i) = Completed(i) + Scheduled(i)

(***************************************************************************)
(* C4: the navigation queue never holds more than 3 indices and never      *)
(* holds an index twice.                                                   *)
(***************************************************************************)
C4_QueueBounded ==
    LET queue == navState.queue
    IN  /\ Len(queue) <= 3
        /\ \A j, k \in 1..Len(queue) : j # k => queue[j] # queue[k]

\* A full queue from which a further request was dropped: the dropped call
\* cleared the drain timer and set none, and a slide outside the queue exists.
C4_FullQueueWitness ==
    /\ isAnimating
    /\ Len(navState.queue) = 3
    /\ navState.pending = 0
    /\ timers = <<>> /\ frames = <<>>
    /\ \E i \in Slides : ~Includes(navState.queue, i)

(***************************************************************************)
(* C5: goToSlide with an index below 0 or at or above totalSlides changes  *)
(* nothing, idle or animating: position, tracker, queue, flags, timers,    *)
(* frames and dispatched events are all as before the call.                *)
(***************************************************************************)
C5_OutOfRangeNoChange ==
    [][\A index \in {-1, totalSlides} :
          GoToSlideReq(index) => UNCHANGED navVars]_vars

\* An out-of-range call meets a transition in flight with a queued request
\* and a live timer; the call leaves this state as it is.
C5_BusyWitness ==
    /\ CanCall
    /\ isAnimating
    /\ navState.queue # <<>>
    /\ navState.pending # 0
    /\ \E k \in 1..Len(timers) : timers[k].id = navState.pending

(***************************************************************************)
(* C6: goToSlide(currentIndex) while idle is a no-op that leaves the whole *)
(* navigation state unchanged, lastTime, inProgress and the pending timer  *)
(* handle included, and dispatches no event.                               *)
(***************************************************************************)
C6_RedundantNoChange ==
    [][(~isAnimating /\ GoToSlideReq(currentSlideIndex)) => UNCHANGED navVars]_vars

(***************************************************************************)
(* C7: in the burst scenario only the transition to 1 is admitted at       *)
(* once, 2 and 3 are queued in that order, 2 is committed only after the   *)
(* navigationComplete of the transition to 1, and 3 only after that of     *)
(* the transition to 2.                                                    *)
(***************************************************************************)
C7_BurstOrder ==
    /\ (tracker.exists /\ Includes(navState.queue, 3)) =>
           (tracker.history = <<0, 1>> => navState.queue = <<2, 3>>)
    /\ Committed(2) > 0 => Completed(1) > 0
    /\ Committed(3) > 0 => Completed(2) > 0

(***************************************************************************)
(* C8: an in-range request that arrives while a transition is animating    *)
(* and less than the debounce window (500) after lastTime commits nothing; *)
(* it is appended at the tail of the queue exactly when the queue holds    *)
(* fewer than 3 entries and not this index, else the queue is unchanged.   *)
(***************************************************************************)
C8_BusyRule ==
    [][\A index \in Slides :
          (isAnimating /\ now - navState.lastTime < 500 /\ GoToSlideReq(index)) =>
              /\ UNCHANGED <<currentSlideIndex, tracker, isAnimating, frames, events>>
              /\ navState'.queue =
                    IF Len(navState.queue) < 3
                       /\ \A k \in 1..Len(navState.queue) : navState.queue[k] # index
                    THEN navState.queue \o <<index>>
                    ELSE navState.queue]_vars

\* Two requests queued behind a transition in flight, the drain timer of the
\* second one pending.
C8_QueuedWitness ==
    /\ isAnimating
    /\ InWindow
    /\ Len(navState.queue) = 2
    /\ \E k \in 1..Len(timers) :
          timers[k].id = navState.pending /\ timers[k].kind = "drain"

(***************************************************************************)
(* C9: requests are executed in order: a step that commits an index        *)
(* commits the oldest request still waiting (re-issue pending after the    *)
(* grace delay, then the queue from its head), entries equal to the        *)
(* current index aside; a later request never overtakes a waiting one.     *)
(***************************************************************************)
Waiting ==
    LET graced == SelectSeq(timers, LAMBDA tm : tm.kind = "grace")
        all == [k \in 1..Len(graced) |-> graced[k].index] \o navState.queue
    IN  SelectSeq(all, LAMBDA x : x # currentSlideIndex)

C9_InOrder ==
    [][CommitStep => (Waiting = <<>> \/ Last(tracker'.history) = Head(Waiting))]_vars

(***************************************************************************)
(* C10: currentSlideIndex (the value of getCurrentSlide()), the tracker's  *)
(* currentIndex and every queued index lie in 0..totalSlides-1.            *)
(***************************************************************************)
C10_IndicesInRange ==
    /\ currentSlideIndex >= 0 /\ currentSlideIndex < totalSlides
    /\ tracker.exists => (tracker.currentIndex >= 0 /\ tracker.currentIndex < totalSlides)
    /\ \A k \in 1..Len(navState.queue) :
          navState.queue[k] >= 0 /\ navState.queue[k] < totalSlides

\* The last slide is current, the first slide is queued behind it.
C10_EdgesWitness ==
    /\ tracker.exists
    /\ tracker.currentIndex = totalSlides - 1
    /\ currentSlideIndex = totalSlides - 1
    /\ Includes(navState.queue, 0)

(***************************************************************************)
(* C11: maxVisitedIndex never decreases in any step and, whenever the      *)
(* tracker exists, equals the maximum of the indices in history.           *)
(***************************************************************************)
MaxOf(seq) == CHOOSE m \in {seq[k] : k \in 1..Len(seq)} :
                  \A k \in 1..Len(seq) : seq[k] <= m

C11_MaxVisited ==
    [][/\ tracker'.maxVisitedIndex >= tracker.maxVisitedIndex
       /\ tracker'.exists => tracker'.maxVisitedIndex = MaxOf(tracker'.history)]_vars

\* The form has gone back: the current index is below the furthest visited.
C11_WentBackWitness ==
    /\ tracker.exists
    /\ tracker.currentIndex < tracker.maxVisitedIndex
    /\ tracker.maxVisitedIndex = MaxOf(tracker.history)

(***************************************************************************)
(* C12: history is append-only and non-empty: it starts with the initial   *)
(* index 0, every step leaves it unchanged or appends exactly the index    *)
(* being committed, and its last element is currentIndex.                  *)
(***************************************************************************)
C12_HistoryAppendOnly ==
    [][/\ tracker.exists => tracker'.exists
       /\ tracker'.exists =>
            LET old == IF tracker.exists THEN tracker.history ELSE <<0>>
                new == tracker'.history
            IN  /\ Len(new) >= 1 /\ new[1] = 0
                /\ new[Len(new)] = tracker'.currentIndex
                /\ currentSlideIndex' = tracker'.currentIndex
                /\ \/ new = old
                   \/ new = old \o <<tracker'.currentIndex>>]_vars

\* Several commits, one of them back to an index visited before.
C12_RevisitWitness ==
    /\ tracker.exists
    /\ Len(tracker.history) >= 3
    /\ \E j, k \in 1..Len(tracker.history) : j < k /\ tracker.history[j] = tracker.history[k]

(***************************************************************************)
(* C13: the commit is synchronous with admission: in the step that admits  *)
(* a transition to i (its first frame callback is requested) currentIndex  *)
(* and currentSlideIndex become i, while the active-slide marker, the      *)
(* dispatched events and the completion timer are still those of before.   *)
(***************************************************************************)
C13_CommitAtAdmission ==
    [][Len(frames') > Len(frames) =>
          LET f == frames'[Len(frames')]
          IN  /\ f.stage = 1
              /\ currentSlideIndex' = f.index
              /\ tracker'.exists /\ tracker'.currentIndex = f.index
              /\ activeSlides' = activeSlides
              /\ \A k \in 1..Len(events') :
                    events'[k].type = "navigationComplete" =>
                        k <= Len(events) /\ events[k] = events'[k]
              /\ \A k \in 1..Len(timers') :
                    timers'[k].kind = "complete" =>
                        \E j \in 1..Len(timers) : timers[j] = timers'[k]]_vars

\* Mid-transition: the index is committed, the marker is on the old slide.
C13_MarkerBehindWitness ==
    /\ isAnimating
    /\ frames # <<>> /\ Head(frames).stage = 1
    /\ currentSlideIndex = Head(frames).index
    /\ currentSlideIndex \notin activeSlides

(***************************************************************************)
(* C14: prev() at committed index 0 and next() at committed index          *)
(* totalSlides-1 are no-ops in every state: the call returns the state it  *)
(* found (currentIndex, history, queue, timers and events included), and   *)
(* next() does not consult the validator there.                            *)
(***************************************************************************)
C14_EdgeNoOps ==
    /\ TrackedIndex = 0 => PrevOutcome = State
    /\ TrackedIndex = totalSlides - 1 =>
          /\ ~Consulted(validationEnabled, CanGoNext(TrackedIndex, totalSlides))
          /\ \A valid \in BOOLEAN : NextOutcome(valid) = State

\* next() is called at the last slide while the transition to it is in
\* flight, a request is queued and a timer is live.
C14_LastSlideBusyWitness ==
    /\ CanCall
    /\ validationEnabled
    /\ tracker.exists /\ tracker.currentIndex = totalSlides - 1
    /\ isAnimating
    /\ navState.queue # <<>>
    /\ \E k \in 1..Len(timers) : timers[k].id = navState.pending

(***************************************************************************)
(* C15: with validation enabled, next() whose validateSlide returns false  *)
(* returns the state it found: currentIndex, history, queue, isAnimating   *)
(* and the pending timers are unchanged.                                   *)
(***************************************************************************)
C15_ValidationBlocks ==
    validationEnabled => NextOutcome(FALSE) = State

\* The validator is consulted in a state where a passing next() would have
\* changed the navigation state and a timer is pending.
C15_ConsultedWitness ==
    /\ CanCall
    /\ Consulted(validationEnabled, CanGoNext(TrackedIndex, totalSlides))
    /\ NextOutcome(TRUE) # State
    /\ isAnimating
    /\ \E k \in 1..Len(timers) : timers[k].id = navState.pending

(***************************************************************************)
(* The form with validation enabled or disabled (data-fc-validate).        *)
(***************************************************************************)
InitAnyValidation == \E validation \in BOOLEAN : InitWith(TotalSlides, validation)

SpecAnyValidation == InitAnyValidation /\ [][Next]_vars

(***************************************************************************)
(* C16: prev() never consults the validator and next() does not consult it *)
(* when validation is disabled: whatever validateSlide would return, the   *)
(* outcome of prev() at an index above 0 is that of goToSlide(current-1)   *)
(* and, with validation disabled, the outcome of next() at an index below  *)
(* the last is that of goToSlide(current+1).                               *)
(***************************************************************************)
C16_UngatedRequests ==
    LET current == IF tracker.exists THEN tracker.currentIndex ELSE currentSlideIndex
    IN  /\ current > 0 =>
              PrevOutcome = goToSlide(State, current - 1, TRUE, now, totalSlides)
        /\ (~validationEnabled /\ current < totalSlides - 1) =>
              /\ ~Consulted(validationEnabled, CanGoNext(current, totalSlides))
              /\ \A valid \in BOOLEAN :
                    NextOutcome(valid) = goToSlide(State, current + 1, TRUE, now, totalSlides)

\* Validation is disabled and next() is about to change the navigation state.
C16_DisabledWitness ==
    /\ CanCall
    /\ ~validationEnabled
    /\ tracker.exists /\ tracker.currentIndex > 0
    /\ tracker.currentIndex < totalSlides - 1
    /\ NextOutcome(FALSE) # State
    /\ PrevOutcome # State

(***************************************************************************)
(* C17: next() and prev() compute their target from the committed index,   *)
(* not from the slide that carries the active marker: while a transition   *)
(* to index i is animating, the marker possibly still on the old slide,    *)
(* next() requests i+1 and prev() requests i-1.                            *)
(***************************************************************************)
C17_TargetFromCommitted ==
    (tracker.exists /\ isAnimating) =>
        LET i == tracker.currentIndex
        IN  /\ i < totalSlides - 1 =>
                  NextOutcome(TRUE) = goToSlide(State, i + 1, TRUE, now, totalSlides)
            /\ i > 0 =>
                  PrevOutcome = goToSlide(State, i - 1, TRUE, now, totalSlides)

\* The transition to a middle slide is committed and animating while the
\* active marker is still on the slide it left.
C17_MarkerOnOldSlideWitness ==
    /\ CanCall
    /\ isAnimating
    /\ tracker.exists
    /\ tracker.currentIndex > 0 /\ tracker.currentIndex < totalSlides - 1
    /\ tracker.currentIndex \notin activeSlides
    /\ activeSlides # {}

(***************************************************************************)
(* destroy(): the resize listener is "removed" with a freshly bound        *)
(* function (which removes nothing), the navigation and progress modules   *)
(* are destroyed, the active class is taken off every slide and            *)
(* formchippy:destroy is dispatched.  Timers, frames, the queue and the    *)
(* tracked keydown handlers are not touched.                               *)
(***************************************************************************)
DestroyEvent == [type |-> "destroy"]

Destroyed == \E k \in 1..Len(events) : events[k].type = "destroy"

DestroyOutcome ==
    [State EXCEPT !.activeSlides = {}, !.events = Append(@, DestroyEvent)]

\* The host destroys the instance once and calls nothing on it afterwards;
\* callbacks already scheduled still run.
destroy ==
    /\ ~Destroyed
    /\ UNCHANGED <<totalSlides, validationEnabled, now, scroll, tabbing>>
    /\ Install(DestroyOutcome)

DestroyNext ==
    \/ ~Destroyed /\ Next
    \/ destroy
    \/ Destroyed /\ \E k \in 1..Len(timers) : TimerFire(k)
    \/ Destroyed /\ FrameFire
    \/ Destroyed /\ Tick

SpecDestroy == Init /\ [][DestroyNext]_vars

(***************************************************************************)
(* C18: destroy() cancels every pending navigation timer and empties the   *)
(* queue: once destroy() has returned, no step dispatches a                *)
(* navigationComplete event, commits an index or changes currentIndex.     *)
(***************************************************************************)
C18_DestroyCancelsTimers ==
    [][Destroyed =>
          /\ currentSlideIndex' = currentSlideIndex
          /\ tracker' = tracker
          /\ \A i \in Slides : Completed(i)' = Completed(i)]_vars

(***************************************************************************)
(* C19: after destroy() no keyboard handler installed by the focus         *)
(* coordinator (last-input shortcut, cyclic trap) remains attached.        *)
(***************************************************************************)
C19_DestroyRemovesHandlers == Destroyed => tabHandlers = {}

(***************************************************************************)
(* C20: a window resize issues a non-animated goToSlide(currentIndex) only *)
(* when no transition is animating and is ignored otherwise; in every      *)
(* state it leaves currentIndex, history, maxVisitedIndex and the queue    *)
(* unchanged, cancels no callback of a transition in flight and dispatches *)
(* no event.                                                               *)
(***************************************************************************)
C20_ResizeHarmless ==
    LET r == ResizeOutcome
    IN  /\ isAnimating => r = State
        /\ ~isAnimating =>
              r = goToSlide(State, currentSlideIndex, FALSE, now, totalSlides)
        /\ r.currentSlideIndex = currentSlideIndex
        /\ r.tracker = tracker
        /\ r.navState.queue = navState.queue
        /\ r.isAnimating = isAnimating
        /\ r.timers = timers
        /\ r.frames = frames
        /\ r.events = events

\* A resize has re-scrolled the idle form (inProgress is left set by the
\* redundant request) while the re-issue of a queued request is scheduled.
C20_ResizedIdleWitness ==
    /\ ~isAnimating
    /\ navState.inProgress
    /\ tracker.exists
    /\ timers # <<>>

(***************************************************************************)
(* The scroll of the second animation frame: the block position handed to  *)
(* scrollIntoView.  An absent attribute reads as null; null and the empty  *)
(* string are falsy.  Heights are offsetHeight values, whole pixels.       *)
(***************************************************************************)
HeightStep == 100    \* heights are multiples of this many pixels
MaxHeight  == 1000   \* the tallest slide and container

Heights == {k * HeightStep : k \in 0..(MaxHeight \div HeightStep)}

Positions == {"start", "center", "end", "nearest"}

Falsy(v) == v \in {"null", ""}

\* Mutant of the precedence: the form-wide default wins over the slide's own.
ChosenDefaultFirst(override, default) ==
    IF ~Falsy(default) THEN default
    ELSE IF ~Falsy(override) THEN override ELSE "center"

\* data-fc-slide-position, else options.scrollPosition, else 'center'.
ChosenPosition(override, default) ==
    IF ~Falsy(override) THEN override
    ELSE IF ~Falsy(default) THEN default ELSE "center"

\* Mutant of the height test: a slide of exactly 80% counts as tall.
IsTallInclusive(slideHeight, containerHeight) == 5 * slideHeight >= 4 * containerHeight

\* slideHeight > containerHeight * 0.8; for whole pixels the double product
\* compares as the exact one does.
IsTall(slideHeight, containerHeight) == 5 * slideHeight > 4 * containerHeight

EffectivePosition(position, slideHeight, containerHeight) ==
    IF position \in {"center", "end"} /\ IsTall(slideHeight, containerHeight)
    THEN "start"
    ELSE position

ScrollInputs ==
    [override : Positions \cup {"null", ""},
     default : Positions \cup {"null", ""},
     slideHeight : Heights,
     containerHeight : Heights,
     chosen : {"unset"},
     block : {"unset"}]

ScrollInit ==
    /\ NavInit(TotalSlides, TRUE, <<>>)
    /\ tabbing = NoTabbing
    /\ scroll \in ScrollInputs

\* The second frame resolves the position and scrolls the target slide.
ScrollIntoView ==
    /\ scroll.block = "unset"
    /\ LET position == ChosenPosition(scroll.override, scroll.default)
       IN  scroll' = [scroll EXCEPT
                        !.chosen = position,
                        !.block = EffectivePosition(position, scroll.slideHeight,
                                                    scroll.containerHeight)]
    /\ UNCHANGED <<totalSlides, validationEnabled, currentSlideIndex, isAnimating,
                   navState, tracker, activeSlides, timers, frames, events,
                   tabHandlers, now, eventHandlers, handlerCalls, pipeline,
                   tabbing>>

ScrollNext == ScrollIntoView

SpecScroll == ScrollInit /\ [][ScrollNext]_vars

(***************************************************************************)
(* C21: with a the alignment chosen before downgrading, h the slide        *)
(* height and c the container height, the block used is 'start' when a is  *)
(* 'center' or 'end' and h > 0.8*c, and a in every other case: 'start' and *)
(* 'nearest' are never altered and h = 0.8*c is not downgraded.            *)
(***************************************************************************)
C21_Downgrade ==
    scroll.block # "unset" =>
        LET a == scroll.chosen
            h == scroll.slideHeight
            c == scroll.containerHeight
        IN  /\ (a \in {"center", "end"} /\ 10 * h > 8 * c) => scroll.block = "start"
            /\ a \in {"start", "nearest"} => scroll.block = a
            /\ 10 * h <= 8 * c => scroll.block = a

\* The scenario of the claim: height 900 in a container of 1000, 'center'.
C21_TallCenterWitness ==
    /\ scroll.slideHeight = 900 /\ scroll.containerHeight = 1000
    /\ scroll.chosen = "center"
    /\ scroll.block = "start"

(***************************************************************************)
(* C22: the alignment used before downgrading is the slide's own override  *)
(* whenever the slide has one, and the form-wide default, falling back to  *)
(* 'center', only when it has none.                                        *)
(***************************************************************************)
C22_Precedence ==
    scroll.block # "unset" =>
        LET present(v) == v \notin {"null", ""}
        IN  scroll.chosen =
               IF present(scroll.override) THEN scroll.override
               ELSE IF present(scroll.default) THEN scroll.default
               ELSE "center"

\* The slide asks for 'end', the form for 'start': 'end' is chosen.
C22_OverrideWinsWitness ==
    /\ scroll.override = "end" /\ scroll.default = "start"
    /\ scroll.chosen = "end"

(***************************************************************************)
(* Tab order and keyboard handlers of the slides.  A slide is the sequence *)
(* of its elements in document order; an element has a kind (text, input,  *)
(* link, tabstop: an element the author gave a tabindex, button), the      *)
(* data-fc-button-prev mark, its tabindex attribute ("none" when absent)   *)
(* and its _fcTabHandler property (0 when unset).  A keydown listener is a *)
(* record of the element it is attached to, what it does and where it      *)
(* sends the focus; its id stands for the identity of the function.        *)
(***************************************************************************)
MaxInputs  == 2   \* inputs of the second slide
MaxButtons == 2   \* buttons of the second slide

Element(kind, marked, tabindex) ==
    [kind |-> kind, prev |-> marked, tabindex |-> tabindex, fcTabHandler |-> 0]

ButtonMarks == UNION {[1..n -> BOOLEAN] : n \in 0..MaxButtons}

SlideShape(nInputs, hasLink, hasTabstop, marks, buttonsFirst) ==
    LET ins == [k \in 1..nInputs |-> Element("input", FALSE, "none")]
        btns == [k \in 1..Len(marks) |-> Element("button", marks[k], "none")]
        others == (IF hasLink THEN <<Element("link", FALSE, "none")>> ELSE <<>>)
                    \o (IF hasTabstop THEN <<Element("tabstop", FALSE, "0")>> ELSE <<>>)
    IN  <<Element("text", FALSE, "none")>>
          \o (IF buttonsFirst THEN btns \o others \o ins ELSE ins \o others \o btns)
FirstSlide == SlideShape(1, FALSE, FALSE, <<FALSE>>, FALSE)

Indices(slide) == [k \in 1..Len(slide) |-> k]

\* slide.querySelectorAll('input, select, textarea')
inputs(slide) == SelectSeq(Indices(slide), LAMBDA k : slide[k].kind = "input")

\* slide.querySelectorAll('button, [role="button"], [data-fc-button]')
buttons(slide) == SelectSeq(Indices(slide), LAMBDA k : slide[k].kind = "button")

\* slide.querySelectorAll('[href], [tabindex]:not([tabindex="-1"])')
otherFocusables(slide) ==
    SelectSeq(Indices(slide),
              LAMBDA k : slide[k].kind = "link" \/ slide[k].tabindex \notin {"none", "-1"})

uniqueOtherFocusables(slide) ==
    SelectSeq(otherFocusables(slide),
              LAMBDA k : ~Includes(inputs(slide), k) /\ ~Includes(buttons(slide), k))

\* Mutant of the order: buttons first.
allFocusables(slide) ==
    inputs(slide) \o uniqueOtherFocusables(slide) \o buttons(slide)

ListenerIds(t) ==
    {t.listeners[k].id : k \in 1..Len(t.listeners)}
      \cup {t.activeTabHandlers[k].id : k \in 1..Len(t.activeTabHandlers)}
      \cup {t.activeTrapHandlers[k].id : k \in 1..Len(t.activeTrapHandlers)}
      \cup UNION {{t.slides[i][k].fcTabHandler : k \in 1..Len(t.slides[i])} :
                      i \in 1..Len(t.slides)}

\* A function never seen before.
NewListenerId(t) ==
    CHOOSE n \in 1..(Cardinality(ListenerIds(t)) + 1) : n \notin ListenerIds(t)

\* element.addEventListener('keydown', handler)
AddListener(listeners, slide, el, kind, target, id) ==
    Append(listeners, [slide |-> slide, el |-> el, kind |-> kind, target |-> target,
                       id |-> id])

\* item.element.removeEventListener('keydown', item.handler) for each item
RemoveListeners(listeners, items) ==
    SelectSeq(listeners,
              LAMBDA l : ~\E k \in 1..Len(items) :
                            /\ items[k].slide = l.slide
                            /\ items[k].el = l.el
                            /\ items[k].id = l.id)

Tracked(slide, el, id) == [slide |-> slide, el |-> el, id |-> id]

\* Mutant of the cleanup: the tracked lists are emptied, the listeners stay.
CleanupForgets(t) ==
    [t EXCEPT !.activeTabHandlers = <<>>, !.activeTrapHandlers = <<>>]

\* _cleanupTabEventListeners
CleanupListeners(t) ==
    [t EXCEPT
       !.listeners = RemoveListeners(RemoveListeners(@, t.activeTabHandlers),
                                     t.activeTrapHandlers),
       !.activeTabHandlers = <<>>,
       !.activeTrapHandlers = <<>>]

\* Mutant: the shortcut goes to the first button whatever its marking.
NextButtonFirst(slide, btns) == Head(btns)

\* buttons.find(btn => !btn.hasAttribute('data-fc-button-prev')) || buttons[0]
NextButton(slide, btns) ==
    LET unmarked == SelectSeq(btns, LAMBDA k : ~slide[k].prev)
    IN  IF unmarked # <<>> THEN Head(unmarked) ELSE Head(btns)

\* The last-input shortcut of _setupActiveSlideTabbing.
SetupShortcut(t, i) ==
    LET slide == t.slides[i]
        ins == inputs(slide)
        btns == buttons(slide)
    IN
    IF ins # <<>> /\ btns # <<>>
    THEN LET lastInput == ins[Len(ins)]
             old == slide[lastInput].fcTabHandler
             t1 == IF old # 0
                   THEN [t EXCEPT !.listeners =
                                     RemoveListeners(@, <<Tracked(i, lastInput, old)>>)]
                   ELSE t
             id == NewListenerId(t1)
         IN  [t1 EXCEPT
                !.slides[i][lastInput].fcTabHandler = id,
                !.activeTabHandlers = Append(@, Tracked(i, lastInput, id)),
                !.listeners = AddListener(@, i, lastInput, "shortcut",
                                          NextButton(slide, btns), id)]
    ELSE t

firstFocusable(focusableElements) == focusableElements[1]

\* Mutant: the trap's far end is the first element again.
lastFocusableIsFirst(focusableElements) == focusableElements[1]

lastFocusable(focusableElements) == focusableElements[Len(focusableElements)]

\* _setupFocusTrap(slide, focusableElements)
SetupFocusTrap(t, i, focusableElements) ==
    IF focusableElements = <<>> THEN t
    ELSE LET first == firstFocusable(focusableElements)
             last == lastFocusable(focusableElements)
             firstId == NewListenerId(t)
             t1 == [t EXCEPT
                      !.activeTrapHandlers = Append(@, Tracked(i, first, firstId)),
                      !.listeners = AddListener(@, i, first, "trapFirst", last, firstId)]
             lastId == NewListenerId(t1)
         IN  [t1 EXCEPT
                !.activeTrapHandlers = Append(@, Tracked(i, last, lastId)),
                !.listeners = AddListener(@, i, last, "trapLast", first, lastId)]

\* No FocusSet has been computed for the slide yet.
NotYet == <<0>>

\* _setupActiveSlideTabbing(slide): the focusables are gathered, the tracked
\* handlers removed, every focusable gets tabindex 0, then the shortcut
\* and the trap are installed.
SetupTabbing(t, i) ==
    LET focusables == allFocusables(t.slides[i])
        t1 == CleanupListeners(t)
        t2 == [t1 EXCEPT !.slides[i] =
                 [k \in 1..Len(@) |->
                    IF Includes(focusables, k) THEN [@[k] EXCEPT !.tabindex = "0"]
                    ELSE @[k]]]
        t3 == SetupShortcut(t2, i)
    IN  [SetupFocusTrap(t3, i, focusables) EXCEPT
           !.focusSet = focusables,
           !.first[i] = IF @ = NotYet THEN focusables ELSE @]

\* The tab-order part of _updateActiveSlide(index): the active slide is set
\* up, every element of every other slide gets tabindex -1.
UpdateTabOrder(t, index) ==
    LET t1 == [t EXCEPT !.slides =
                 [j \in 1..Len(@) |->
                    IF j = index THEN @[j]
                    ELSE [k \in 1..Len(@[j]) |-> [@[j][k] EXCEPT !.tabindex = "-1"]]]]
    IN  [SetupTabbing(t1, index) EXCEPT !.active = index]

NoKey == [slide |-> 0, el |-> 0, shift |-> FALSE, fired |-> <<>>, target |-> 0]

\* Mutant: the handlers redirect a Tab whatever the shift key.
RedirectsAnyTab(kind, shift) == TRUE

\* The key tests of the three keydown handlers (the key is always Tab):
\* newHandler and lastHandler act without shift, firstHandler with shift.
Redirects(kind, shift) ==
    \/ kind = "shortcut" /\ ~shift
    \/ kind = "trapFirst" /\ shift
    \/ kind = "trapLast" /\ ~shift

\* A Tab keydown on an element: its listeners run in the order they were
\* added, each one that acts calls focus() on its target, the last call wins.
\* A target of 0 leaves the key to the browser.
KeyOutcome(t, slide, el, shift) ==
    LET acting == SelectSeq(t.listeners,
                            LAMBDA l : l.slide = slide /\ l.el = el
                                         /\ Redirects(l.kind, shift))
    IN  [slide |-> slide, el |-> el, shift |-> shift,
         fired |-> [k \in 1..Len(acting) |-> acting[k].kind],
         target |-> IF acting = <<>> THEN 0 ELSE acting[Len(acting)].target]

NoListeners(slides) ==
    [active |-> 0, slides |-> slides, listeners |-> <<>>,
     activeTabHandlers |-> <<>>, activeTrapHandlers |-> <<>>,
     focusSet |-> <<>>, first |-> [i \in 1..Len(slides) |-> NotYet],
     key |-> NoKey]

SecondSlides ==
    {SlideShape(n, l, ts, m, bf) :
       n \in 0..MaxInputs, l \in BOOLEAN, ts \in BOOLEAN, m \in ButtonMarks,
       bf \in BOOLEAN}

\* _init on a form of two slides: _updateActiveSlide(0), then
\* _setupActiveSlideTabbing(firstSlide) once more.
TabbingInit ==
    /\ NavInit(2, TRUE, <<>>)
    /\ scroll = NoScroll
    /\ \E second \in SecondSlides :
          tabbing = SetupTabbing(UpdateTabOrder(NoListeners(<<FirstSlide, second>>), 1), 1)

allButTabbing ==
    <<totalSlides, validationEnabled, currentSlideIndex, isAnimating, navState,
      tracker, activeSlides, timers, frames, events, tabHandlers, now,
      eventHandlers, handlerCalls, pipeline, scroll>>

\* _updateActiveSlide(i) as far as the tab order goes (slides count from 1).
Activate(i) ==
    /\ tabbing' = [UpdateTabOrder(tabbing, i) EXCEPT !.key = NoKey]
    /\ UNCHANGED allButTabbing

\* The user presses Tab, with or without shift, on an element of a slide.
KeyDown(slide, el, shift) ==
    /\ tabbing' = [tabbing EXCEPT !.key = KeyOutcome(tabbing, slide, el, shift)]
    /\ UNCHANGED allButTabbing

TabbingNext ==
    \/ \E i \in 1..Len(tabbing.slides) : Activate(i)
    \/ \E slide \in 1..Len(tabbing.slides) :
         \E el \in 1..Len(tabbing.slides[slide]) :
           \E shift \in BOOLEAN : KeyDown(slide, el, shift)

SpecTabbing == TabbingInit /\ [][TabbingNext]_vars

Kinds(slide) == [k \in 1..Len(slide) |-> slide[k].kind]

\* What the page's author made focusable besides inputs and buttons: links
\* and elements written with a tab stop.
AuthoredOthers(slide) ==
    SelectSeq(Indices(slide), LAMBDA k : slide[k].kind \in {"link", "tabstop"})

\* C23: after a slide is activated its FocusSet is inputs ++ (links and
\* explicitly tab-stopped elements that are neither inputs nor buttons) ++
\* buttons, every member has tab stop 0, and every element of every other
\* slide has tab stop -1.
C23_FocusSet ==
    LET t == tabbing
        slide == t.slides[t.active]
    IN  /\ t.focusSet = inputs(slide) \o AuthoredOthers(slide) \o buttons(slide)
        /\ \A k \in 1..Len(slide) :
             slide[k].kind \in {"input", "link", "tabstop", "button"}
               => slide[k].tabindex = "0"
        /\ \A j \in 1..Len(t.slides) : j # t.active =>
             \A k \in 1..Len(t.slides[j]) : t.slides[j][k].tabindex = "-1"

KeyOnActive == tabbing.key.slide # 0 /\ tabbing.key.slide = tabbing.active

TwoInputsOneNext ==
    /\ Kinds(tabbing.slides[tabbing.active]) = <<"text", "input", "input", "button">>
    /\ ~tabbing.slides[tabbing.active][4].prev

\* C24: on a slide whose FocusSet is not empty, a backward-tab on the first
\* member goes to the last member and a forward-tab on the last member goes to
\* the first; a redirected Tab always lands in the FocusSet; with two inputs
\* and one next button, forward from input 2 goes to the button, forward from
\* the button to input 1, backward from input 1 to the button.
C24_CyclicTrap ==
    LET t == tabbing
        key == t.key
    IN  (KeyOnActive /\ t.focusSet # <<>>) =>
          /\ (key.el = t.focusSet[1] /\ key.shift) => key.target = Last(t.focusSet)
          /\ (key.el = Last(t.focusSet) /\ ~key.shift) => key.target = t.focusSet[1]
          /\ key.target # 0 => Includes(t.focusSet, key.target)
          /\ TwoInputsOneNext =>
               /\ (key.el = 3 /\ ~key.shift) => key.target = 4
               /\ (key.el = 4 /\ ~key.shift) => key.target = 2
               /\ (key.el = 2 /\ key.shift) => key.target = 4

C24_WrapWitness ==
    /\ KeyOnActive
    /\ TwoInputsOneNext
    /\ tabbing.key.el = 4
    /\ ~tabbing.key.shift
    /\ tabbing.key.target = 2

Shortcuts == SelectSeq(tabbing.listeners, LAMBDA l : l.kind = "shortcut")

\* C25: activation installs exactly one shortcut handler, on the last input,
\* exactly when the slide has an input and a button; a forward-tab on that
\* input goes to the first button not marked previous, or to the first button
\* when all are marked; a backward-tab is not redirected by the shortcut.
C25_Shortcut ==
    LET t == tabbing
        key == t.key
        slide == t.slides[t.active]
        ins == inputs(slide)
        btns == buttons(slide)
        unmarked == {k \in 1..Len(btns) : ~slide[btns[k]].prev}
        expected == IF unmarked = {} THEN btns[1]
                    ELSE btns[CHOOSE k \in unmarked : \A m \in unmarked : k <= m]
    IN  IF ins # <<>> /\ btns # <<>>
        THEN /\ Len(Shortcuts) = 1
             /\ Shortcuts[1].slide = t.active
             /\ Shortcuts[1].el = Last(ins)
             /\ (KeyOnActive /\ key.el = Last(ins)) =>
                  IF key.shift THEN ~Includes(key.fired, "shortcut")
                  ELSE key.target = expected /\ Includes(key.fired, "shortcut")
        ELSE Shortcuts = <<>>

C25_SkipsPreviousWitness ==
    LET slide == tabbing.slides[tabbing.active]
        btns == buttons(slide)
    IN  /\ KeyOnActive
        /\ inputs(slide) # <<>>
        /\ Len(btns) = 2
        /\ slide[btns[1]].prev
        /\ ~slide[btns[2]].prev
        /\ tabbing.key.el = Last(inputs(slide))
        /\ ~tabbing.key.shift
        /\ tabbing.key.target = btns[2]

TrackedHandlers ==
    {tabbing.activeTabHandlers[k] : k \in 1..Len(tabbing.activeTabHandlers)}
      \cup {tabbing.activeTrapHandlers[k] : k \in 1..Len(tabbing.activeTrapHandlers)}

\* C26: the keydown handlers attached are exactly those of the latest
\* activation: none when its FocusSet is empty, else the two trap handlers
\* plus the shortcut when the slide has an input and a button; repeated
\* activations never add to their number.
C26_OneGeneration ==
    LET t == tabbing
        slide == t.slides[t.active]
        generation == IF t.focusSet = <<>> THEN 0
                      ELSE IF inputs(slide) # <<>> /\ buttons(slide) # <<>> THEN 3
                      ELSE 2
    IN  /\ Len(t.listeners) = generation
        /\ \A k \in 1..Len(t.listeners) :
             /\ t.listeners[k].slide = t.active
             /\ Tracked(t.active, t.listeners[k].el, t.listeners[k].id) \in TrackedHandlers
        /\ Cardinality(TrackedHandlers) = generation

C26_EarlierGenerationWitness ==
    /\ tabbing.active = 2
    /\ Len(tabbing.listeners) = 3
    /\ tabbing.slides[1][2].fcTabHandler # 0
    /\ \A k \in 1..Len(tabbing.listeners) : tabbing.listeners[k].slide = 2

MaxHandlers == 2

HandlerLists == UNION {[1..n -> {"ok", "throws"}] : n \in 0..MaxHandlers}

HandlersInit ==
    /\ \E handlers \in HandlerLists : NavInit(BurstSlides, TRUE, handlers)
    /\ scroll = NoScroll
    /\ tabbing = NoTabbing

SpecHandlers == HandlersInit /\ [][BurstNext]_vars

Completions(evs) == SelectSeq(evs, LAMBDA e : e.type = "navigationComplete")

\* Every completion so far called every handler, in registration order.
AllHandlersCalled ==
    LET n == Len(eventHandlers)
        done == Completions(events)
    IN  /\ Len(handlerCalls) = n * Len(done)
        /\ \A j \in 1..Len(done) : \A k \in 1..n :
             handlerCalls[(j - 1) * n + k] = [handler |-> k, toIndex |-> done[j].toIndex]

CompletionStep == Len(Completions(events')) > Len(Completions(events))

\* The completion shifts one queue entry and schedules its re-issue.
Drains ==
    navState.queue # <<>> =>
      /\ navState'.queue = Tail(navState.queue)
      /\ Head(navState.queue) # currentSlideIndex =>
           \E k \in 1..Len(timers') :
             /\ timers'[k].kind = "grace"
             /\ timers'[k].index = Head(navState.queue)
             /\ timers'[k].deadline = now + GraceDelay

\* C28: a navigationComplete handler that throws aborts nothing: every
\* handler registered is still called, in registration order, trigger()
\* returns, and the completion step goes on to drain the queue.
C28_ThrowingHandlerHarmless ==
    /\ []AllHandlersCalled
    /\ [][CompletionStep => Drains]_vars

C28_DrainedAfterThrowWitness ==
    /\ eventHandlers = <<"throws", "ok">>
    /\ Len(handlerCalls) >= 2
    /\ \E k \in 1..Len(timers) : timers[k].kind = "grace"

SlideChanges == SelectSeq(events, LAMBDA e : e.type = "slideChange")

\* slideChange events dispatched for slide i, with the detail the slide calls for.
SlideChangesFor(i) ==
    CountIn(events, LAMBDA e : e = [type |-> "slideChange", currentSlide |-> i + 1,
                                    totalSlides |-> totalSlides,
                                    slideId |-> SlideId(i)])

\* Transitions to i that are committed and wait for their first frame.
AwaitingFirstFrame(i) == CountIn(frames, LAMBDA f : f.stage = 1 /\ f.index = i)

GraceTimers(tms) == SelectSeq(tms, LAMBDA tm : tm.kind = "grace")

\* The re-issue timer of a drained entry fires: goToSlide(next, true, true).
ReissueStep(index) ==
    /\ Len(GraceTimers(timers')) < Len(GraceTimers(timers))
    /\ \E k \in 1..Len(timers) :
         /\ timers[k].kind = "grace"
         /\ timers[k].index = index
         /\ timers[k].deadline <= now
         /\ \A j \in 1..Len(timers') : timers'[j].id # timers[k].id

\* C30: the forced re-issue of a drained queue entry bypasses the debounce
\* guard: it is committed at once, even while a transition is animating
\* within the debounce window, and is never queued again or dropped.
C30_ForcedBypassesDebounce ==
    [][\A index \in Slides :
         (ReissueStep(index) /\ index # currentSlideIndex) =>
           /\ currentSlideIndex' = index
           /\ tracker'.history = Append(tracker.history, index)
           /\ navState'.queue = navState.queue]_vars

\* The queue entries that differ from the committed index, oldest first.
DistinctFromCurrent(queue, current) == SelectSeq(queue, LAMBDA x : x # current)

\* C31: a completion that finds a queue entry distinct from the current
\* index removes the oldest such entry and schedules its re-issue after the
\* grace delay; entries equal to the current index do not stop the drain.
C31_DrainOnCompletion ==
    [][(CompletionStep /\ DistinctFromCurrent(navState.queue, currentSlideIndex) # <<>>) =>
         LET nextIndex == Head(DistinctFromCurrent(navState.queue, currentSlideIndex))
         IN  /\ ~Includes(navState'.queue, nextIndex)
             /\ \E k \in 1..Len(timers') :
                  /\ timers'[k].kind = "grace"
                  /\ timers'[k].index = nextIndex
                  /\ timers'[k].deadline = now + GraceDelay]_vars

\* The timers whose handle the pending slot is meant to own.
NavigationTimers == SelectSeq(timers, LAMBDA tm : tm.kind \in {"drain", "complete"})

\* C32: at most one drain or completion timer is live at any instant, and a
\* live one is the timer whose handle the pending slot holds: none survives
\* untracked.
C32_SingleSlotTimer ==
    /\ Len(NavigationTimers) <= 1
    /\ \A k \in 1..Len(NavigationTimers) : NavigationTimers[k].id = navState.pending

PipelineOrder == <<"activeClass", "indicators", "tabbing", "scroll", "complete">>

\* Times a step has run for slide i within the first n entries of the log.
StepsRun(n, name, i) ==
    Cardinality({k \in 1..n : pipeline[k] = Step(name, i)})

\* The entry at position p of the log comes after its predecessor: before it,
\* the step that precedes it in the pipeline has run for the same slide more
\* often than the step itself.
InOrderAt(p) ==
    LET e == pipeline[p]
        k == CHOOSE j \in 1..Len(PipelineOrder) : PipelineOrder[j] = e.step
    IN  k > 1 =>
          StepsRun(p - 1, PipelineOrder[k - 1], e.index) > StepsRun(p - 1, e.step, e.index)

CallsUntil   == 1500
FairMaxTime  == 8000

FairCall(index) ==
    /\ now <= CallsUntil
    /\ GoToSlideReq(index)

FairTick == TickTo(FairMaxTime, ClockStep)

FairNext ==
    \/ \E index \in Slides : FairCall(index)
    \/ \E k \in 1..Len(timers) : TimerFire(k)
    \/ FrameFire
    \/ FairTick

Fairness ==
    /\ WF_vars(FrameFire)
    /\ WF_vars(\E k \in 1..Len(timers) : TimerFire(k))
    /\ WF_vars(FairTick)

SpecFair == Init /\ [][FairNext]_vars /\ Fairness

\* C34: once the requests have stopped, the form returns to idle and stays
\* idle: isAnimating is eventually false for good.
C34_NoStuckAnimating == <>[](~isAnimating)

\* C35: once the requests have stopped, every queued index leaves the queue:
\* the form ends idle with an empty queue.
C35_NoStrandedEntry == <>[](~isAnimating /\ navState.queue = <<>>)

\* A request for index made now would be dropped: it is blocked and the
\* queue is full or holds the index already.
WouldDrop(index) ==
    /\ ~OutOfBounds(index, totalSlides)
    /\ Blocked(isAnimating, now - navState.lastTime)
    /\ ~CanEnqueue(navState.queue, index)

\* C36: a dropped request leaves the navigation state as it was: the queue,
\* isAnimating, lastTime, and every timer scheduled before the call.
C36_DroppedNoChange ==
    \A index \in Slides :
      WouldDrop(index) =>
        LET after == goToSlide(State, index, TRUE, now, totalSlides)
        IN  /\ after.navState.queue = navState.queue
            /\ after.isAnimating = isAnimating
            /\ after.navState.lastTime = navState.lastTime
            /\ after.timers = timers

getCurrentSlide == currentSlideIndex

\* C37: the two records of the position agree: once the tracker exists its
\* currentIndex is the value of getCurrentSlide(), and before that the value
\* is 0.
C37_RecordsAgree ==
    IF tracker.exists THEN tracker.currentIndex = getCurrentSlide
    ELSE getCurrentSlide = 0

C37_BackAgainWitness ==
    /\ tracker.exists
    /\ tracker.history = <<0, 2, 1>>
    /\ tracker.maxVisitedIndex = 2
    /\ getCurrentSlide = 1

\* Idle with nothing left to render.
Settled == ~isAnimating /\ frames = <<>>

\* C38: whenever the form is idle and no frame callback is pending, the
\* slide carrying the active class is the slide at the committed index.
C38_RenderedIsCommitted == Settled => activeSlides = {getCurrentSlide}

C38_SettledAfterBurstWitness ==
    /\ Settled
    /\ Completed(getCurrentSlide) = 1
    /\ getCurrentSlide = 3
    /\ navState.queue # <<>>
    /\ activeSlides = {3}

(***************************************************************************)
(* A form whose first slide has any of the layouts and whose second slide  *)
(* holds text only: the first slide is set up by _init, left and entered   *)
(* again.                                                                  *)
(***************************************************************************)
TextSlide == SlideShape(0, FALSE, FALSE, <<>>, FALSE)

ReactivationInit ==
    /\ NavInit(2, TRUE, <<>>)
    /\ scroll = NoScroll
    /\ \E first \in SecondSlides :
          tabbing = SetupTabbing(UpdateTabOrder(NoListeners(<<first, TextSlide>>), 1), 1)

SpecReactivation == ReactivationInit /\ [][TabbingNext]_vars

\* C39: the FocusSet computed when a slide becomes active again is the
\* sequence computed at its first activation; an element focusable only by
\* its authored tab stop is a member again and gets tab stop 0.
C39_RecomputationRepeatable ==
    LET t == tabbing
        slide == t.slides[t.active]
    IN  /\ t.focusSet = t.first[t.active]
        /\ \A k \in 1..Len(slide) :
             (slide[k].kind = "tabstop" /\ Includes(t.first[t.active], k)) =>
               Includes(t.focusSet, k) /\ slide[k].tabindex = "0"

(***************************************************************************)
(* reset() as the last request: goToSlide is called until reset() has      *)
(* been, then only the callbacks run.  reset() clears the inputs, calls    *)
(* goToSlide(0) and dispatches formchippy:reset.                           *)
(***************************************************************************)
ResetEvent == [type |-> "reset"]

ResetCalled == Includes(events, ResetEvent)

ResetOutcome ==
    [goToSlide(State, 0, TRUE, now, totalSlides) EXCEPT
       !.events = Append(@, ResetEvent)]

resetLast ==
    /\ ~ResetCalled
    /\ Returns(ResetOutcome)

CallBeforeReset(index) ==
    /\ ~ResetCalled
    /\ FairCall(index)

ResetNext ==
    \/ \E index \in Slides : CallBeforeReset(index)
    \/ resetLast
    \/ \E k \in 1..Len(timers) : TimerFire(k)
    \/ FrameFire
    \/ FairTick

SpecReset == Init /\ [][ResetNext]_vars /\ Fairness

\* C40: after reset(), with no request after it, the form ends idle on the
\* first slide.
C40_ResetReturnsToFirst ==
    [](ResetCalled => <>[](~isAnimating /\ getCurrentSlide = 0))

====
